---- MODULE Spec2Model ----
(***************************************************************************)
(* Black-Scholes pricing, Greeks and the Newton-Raphson implied-volatility *)
(* solver of the two notebooks.                                            *)
(*                                                                         *)
(* Numbers.  The code computes in IEEE-754 doubles (Python float and       *)
(* numpy.float64).  A double is modelled as a record                       *)
(*     [k |-> "fin", x |-> n]   the finite value n / Scale                 *)
(*     [k |-> "inf", x |-> s]   s = 1: +inf, s = -1: -inf                  *)
(*     [k |-> "nan", x |-> 0]   not-a-number                               *)
(* with round-to-nearest on a grid of 1/Scale, overflow to +-inf beyond    *)
(* FMax/Scale and underflow to 0 below half a grid step.  The special      *)
(* values follow IEEE-754 as numpy applies it (x/0 = +-inf, 0/0 = nan,     *)
(* inf - inf = nan, every comparison with nan false).  Zero is unsigned.   *)
(***************************************************************************)
EXTENDS Integers, Sequences, FiniteSets, TLC

\* Grid resolution of the modelled doubles: one unit is 1/Scale.
Scale == 1000
\* Largest finite magnitude of the modelled doubles, in grid units.
FMax == 2000000

Fin(n) == [k |-> "fin", x |-> n]
NaN == [k |-> "nan", x |-> 0]
PInf == [k |-> "inf", x |-> 1]
NInf == [k |-> "inf", x |-> 0 - 1]
Inf(s) == IF s >= 0 THEN PInf ELSE NInf

IsFin(a) == a.k = "fin"
IsNaN(a) == a.k = "nan"
IsInf(a) == a.k = "inf"

Abs(n) == IF n < 0 THEN 0 - n ELSE n
Sgn(n) == IF n < 0 THEN 0 - 1 ELSE IF n > 0 THEN 1 ELSE 0

\* Call by value, as Python calls: the arguments are evaluated once, before
\* the body.
ByValue1(Op(_), a) == CHOOSE res \in {Op(x) : x \in {a}} : TRUE
ByValue2(Op(_, _), a, b) == CHOOSE res \in {Op(x, y) : x \in {a}, y \in {b}} : TRUE
ByValue3(Op(_, _, _), a, b, c) ==
    CHOOSE res \in {Op(x, y, z) : x \in {a}, y \in {b}, z \in {c}} : TRUE

\* n/d as a double, n and d integers, d > 0: Dec(25, 1000) is 0.025.
Dec(n, d) == Fin((n * Scale) \div d)

\* a / b rounded to the nearest integer, a >= 0 and b > 0.
RoundDiv(a, b) == (a \div b) + (IF 2 * (a % b) >= b THEN 1 ELSE 0)

\* The double of sign s and magnitude m grid units; overflow gives +-inf.
Pack(s, m) == IF m > FMax THEN Inf(s) ELSE Fin(s * m)

\* The sign of a non-nan double: -1, 0 or 1.
SignOf(a) == IF IsInf(a) THEN a.x ELSE Sgn(a.x)

FNegOf(a) == IF IsFin(a) THEN Fin(0 - a.x) ELSE IF IsInf(a) THEN Inf(0 - a.x) ELSE NaN
FNeg(a) == ByValue1(FNegOf, a)

FAbsOf(a) == IF IsFin(a) THEN Fin(Abs(a.x)) ELSE IF IsInf(a) THEN PInf ELSE NaN
FAbs(a) == ByValue1(FAbsOf, a)

FAddOf(a, b) ==
    IF IsNaN(a) \/ IsNaN(b) THEN NaN
    ELSE IF IsInf(a) /\ IsInf(b) THEN (IF a.x = b.x THEN a ELSE NaN)
    ELSE IF IsInf(a) THEN a
    ELSE IF IsInf(b) THEN b
    ELSE Pack(Sgn(a.x + b.x), Abs(a.x + b.x))
FAdd(a, b) == ByValue2(FAddOf, a, b)

FSub(a, b) == FAdd(a, FNeg(b))

\* |a| * |b| / Scale for finite grid values, without leaving 32 bits.
MulMag(m, n) ==
    LET hi == m \div Scale
        lo == m % Scale
    IN  IF hi > 0 /\ n > FMax \div hi THEN FMax + 1
        ELSE hi * n + RoundDiv(lo * n, Scale)

FMulOf(a, b) ==
    IF IsNaN(a) \/ IsNaN(b) THEN NaN
    ELSE IF IsInf(a) \/ IsInf(b)
         THEN (IF SignOf(a) = 0 \/ SignOf(b) = 0 THEN NaN ELSE Inf(SignOf(a) * SignOf(b)))
    ELSE Pack(Sgn(a.x) * Sgn(b.x), MulMag(Abs(a.x), Abs(b.x)))
FMul(a, b) == ByValue2(FMulOf, a, b)

\* numpy.float64 division: no exception, x/0 = +-inf and 0/0 = nan.
FDivOf(a, b) ==
    IF IsNaN(a) \/ IsNaN(b) THEN NaN
    ELSE IF IsInf(a) THEN (IF IsInf(b) THEN NaN
                           ELSE Inf(a.x * (IF b.x < 0 THEN 0 - 1 ELSE 1)))
    ELSE IF IsInf(b) THEN Fin(0)
    ELSE IF b.x = 0 THEN (IF a.x = 0 THEN NaN ELSE Inf(Sgn(a.x)))
    ELSE Pack(Sgn(a.x) * Sgn(b.x), RoundDiv(Abs(a.x) * Scale, Abs(b.x)))
FDiv(a, b) == ByValue2(FDivOf, a, b)

\* a < b on doubles; false whenever a or b is nan.
FLtOf(a, b) ==
    IF IsNaN(a) \/ IsNaN(b) THEN FALSE
    ELSE IF IsInf(a) THEN a.x < 0 /\ b # a
    ELSE IF IsInf(b) THEN b.x > 0
    ELSE a.x < b.x
FLt(a, b) == ByValue2(FLtOf, a, b)

FLe(a, b) == FLt(a, b) \/ (~IsNaN(a) /\ a = b)

RECURSIVE ISqrt(_, _, _)
\* The largest r in lo..hi with r * r <= n (lo * lo <= n < (hi + 1)^2).
ISqrt(n, lo, hi) ==
    IF lo >= hi THEN lo
    ELSE LET mid == (lo + hi + 1) \div 2
         IN  IF mid * mid <= n THEN ByValue3(ISqrt, n, mid, hi)
             ELSE ByValue3(ISqrt, n, lo, mid - 1)

\* numpy.sqrt: nan for a negative argument.
FSqrtOf(a) ==
    IF IsNaN(a) THEN NaN
    ELSE IF IsInf(a) THEN (IF a.x > 0 THEN PInf ELSE NaN)
    ELSE IF a.x < 0 THEN NaN
    ELSE LET n == a.x * Scale
             r == ByValue3(ISqrt, n, 0, 46000)
         IN  Fin(IF n - r * r > r THEN r + 1 ELSE r)
FSqrt(a) == ByValue1(FSqrtOf, a)

\* ln 2 in grid units.
Ln2 == (693147 * Scale) \div 1000000

RECURSIVE LogMag(_)
\* ln(m / Scale) in grid units, m >= 1: halve or double m into [3/4, 3/2),
\* then 2 * atanh(z) = 2 * (z + z^3/3 + z^5/5), z = (m - 1)/(m + 1).
LogMag(m) ==
    IF 2 * m >= 3 * Scale THEN Ln2 + ByValue1(LogMag, RoundDiv(m, 2))
    ELSE IF 4 * m < 3 * Scale THEN ByValue1(LogMag, 2 * m) - Ln2
    ELSE LET d == m - Scale
             z == Sgn(d) * RoundDiv(Abs(d) * Scale, m + Scale)
             z2 == RoundDiv(z * z, Scale)
             z3 == Sgn(z) * RoundDiv(Abs(z) * z2, Scale)
             z5 == Sgn(z) * RoundDiv(Abs(z3) * z2, Scale)
         IN  2 * z + Sgn(z) * RoundDiv(2 * Abs(z3), 3) + Sgn(z) * RoundDiv(2 * Abs(z5), 5)

\* numpy.log: -inf at 0, nan for a negative argument.
FLogOf(a) ==
    IF IsNaN(a) THEN NaN
    ELSE IF IsInf(a) THEN (IF a.x > 0 THEN PInf ELSE NaN)
    ELSE IF a.x < 0 THEN NaN
    ELSE IF a.x = 0 THEN NInf
    ELSE Fin(LogMag(a.x))
FLog(a) == ByValue1(FLogOf, a)

RECURSIVE Pow2(_)
Pow2(n) == IF n <= 0 THEN 1 ELSE 2 * Pow2(n - 1)

\* e^(f / Scale) in grid units for |f| <= Ln2: the Taylor polynomial of
\* degree 5 in Horner form.
ExpSmall(f) ==
    LET s == Sgn(f)
        m == Abs(f)
        h5 == Scale + s * RoundDiv(m, 5)
        h4 == Scale + s * RoundDiv(m * h5, 4 * Scale)
        h3 == Scale + s * RoundDiv(m * h4, 3 * Scale)
        h2 == Scale + s * RoundDiv(m * h3, 2 * Scale)
    IN  Scale + s * RoundDiv(m * h2, Scale)

\* numpy.exp: e^x = 2^q * e^f with x = q * ln 2 + f; overflow gives +inf,
\* underflow 0.
FExpOf(a) ==
    IF IsNaN(a) THEN NaN
    ELSE IF IsInf(a) THEN (IF a.x > 0 THEN PInf ELSE Fin(0))
    ELSE LET q == RoundDiv(Abs(a.x), Ln2)
             f == Sgn(a.x) * (Abs(a.x) - q * Ln2)
             e == ExpSmall(f)
         IN  IF a.x >= 0
             THEN (IF q > 12 THEN PInf ELSE Pack(1, e * Pow2(q)))
             ELSE (IF q > 12 THEN Fin(0) ELSE Fin(RoundDiv(e, Pow2(q))))
FExp(a) == ByValue1(FExpOf, a)

(***************************************************************************)
(* scipy.stats.norm                                                        *)
(***************************************************************************)

\* The standard normal distribution function at 0, 0.1, ..., 4.0, in
\* millionths.
CdfTable ==
    << 500000, 539828, 579260, 617911, 655422, 691462, 725747, 758036,
       788145, 815940, 841345, 864334, 884930, 903200, 919243, 933193,
       945201, 955435, 964070, 971283, 977250, 982136, 986097, 989276,
       991802, 993790, 995339, 996533, 997445, 998134, 998650, 999032,
       999313, 999517, 999663, 999767, 999841, 999892, 999928, 999952,
       999968 >>

\* The distribution function at m / Scale >= 0, in grid units: linear
\* interpolation between the tabulated points, 1 beyond the table.
CdfMag(m) ==
    LET i == (m * 10) \div Scale
        f == (m * 10) % Scale
        lo == CdfTable[i + 1]
        hi == CdfTable[i + 2]
    IN  IF i >= Len(CdfTable) - 1 THEN Scale
        ELSE RoundDiv((lo + RoundDiv((hi - lo) * f, Scale)) * Scale, 1000000)

\* norm.cdf(x): cdf(-x) = 1 - cdf(x), cdf(-inf) = 0, cdf(inf) = 1.
norm_cdfOf(a) ==
    IF IsNaN(a) THEN NaN
    ELSE IF IsInf(a) THEN (IF a.x > 0 THEN Fin(Scale) ELSE Fin(0))
    ELSE IF a.x >= 0 THEN Fin(CdfMag(a.x))
    ELSE Fin(Scale - CdfMag(0 - a.x))
norm_cdf(a) == ByValue1(norm_cdfOf, a)

\* sqrt(2 * pi).
Sqrt2Pi == Fin((250663 * Scale) \div 100000)

\* norm.pdf(x, 0, 1) = exp(-x**2 / 2) / sqrt(2 * pi).
norm_pdfOf(a) == FDiv(FExp(FNeg(FDiv(FMul(a, a), Fin(2 * Scale)))), Sqrt2Pi)
norm_pdf(a) == ByValue1(norm_pdfOf, a)

(***************************************************************************)
(* Exceptions.  A call of a notebook function gives a double or raises;    *)
(* a raised exception is the record [k |-> <its class>, x |-> 0].  The     *)
(* arguments of a call are Python numbers (as in the notebooks' example    *)
(* cells), so S / K raises ZeroDivisionError when K = 0 and sigma**2       *)
(* raises OverflowError when a Python-number sigma is too large, where     *)
(* numpy.float64 arithmetic gives inf or nan instead.                      *)
(***************************************************************************)
Raise(cls) == [k |-> cls, x |-> 0]
IsExc(a) == a.k \notin {"fin", "inf", "nan"}

\* Python's `x = e` followed by statements that use x: e is evaluated once,
\* an exception raised in e propagates, otherwise Rest(x) goes on.
Bound(e, Rest(_)) == ByValue1(LAMBDA x : IF IsExc(x) THEN x ELSE Rest(x), e)

\* sigma**2: OverflowError for a Python number, inf for a numpy.float64.
Square(sigma, py) ==
    ByValue1(LAMBDA sq : IF py /\ IsFin(sigma) /\ IsInf(sq) THEN Raise("OverflowError")
                         ELSE sq,
             FMul(sigma, sigma))

(***************************************************************************)
(* Pricing (both notebooks define calc_d1, calc_d2 and black_scholes with  *)
(* the same text).  py tells whether sigma is still a Python number.       *)
(***************************************************************************)
calc_d1(S, K, T, r, sigma, py) ==
    IF K.x = 0 THEN Raise("ZeroDivisionError")
    ELSE Bound(Square(sigma, py),
               LAMBDA sq : FDiv(FAdd(FLog(FDiv(S, K)),
                                     FMul(FAdd(r, FMul(Dec(1, 2), sq)), T)),
                                FMul(sigma, FSqrt(T))))

calc_d2(d1, sigma, T) == FSub(d1, FMul(sigma, FSqrt(T)))

\* K * exp(-r * T).
Discounted(K, r, T) == FMul(K, FExp(FMul(FNeg(r), T)))

\* black_scholes with the put priced at d1 and d2 instead of -d1 and -d2.
black_scholes_unsigned_put(S, K, T, r, sigma, opt_type, py) ==
    IF opt_type \notin {"c", "p"} THEN Raise("AssertionError")
    ELSE Bound(calc_d1(S, K, T, r, sigma, py),
               LAMBDA d1 :
                   Bound(calc_d2(d1, sigma, T),
                         LAMBDA d2 :
                             IF opt_type = "c"
                             THEN FSub(FMul(S, norm_cdf(d1)),
                                       FMul(Discounted(K, r, T), norm_cdf(d2)))
                             ELSE FSub(FMul(Discounted(K, r, T), norm_cdf(d2)),
                                       FMul(S, norm_cdf(d1)))))

black_scholes(S, K, T, r, sigma, opt_type, py) ==
    IF opt_type \notin {"c", "p"} THEN Raise("AssertionError")
    ELSE Bound(calc_d1(S, K, T, r, sigma, py),
               LAMBDA d1 :
                   Bound(calc_d2(d1, sigma, T),
                         LAMBDA d2 :
                             IF opt_type = "c"
                             THEN FSub(FMul(S, norm_cdf(d1)),
                                       FMul(Discounted(K, r, T), norm_cdf(d2)))
                             ELSE FSub(FMul(Discounted(K, r, T), norm_cdf(FNeg(d2))),
                                       FMul(S, norm_cdf(FNeg(d1))))))

\* calc_vega with the Greeks notebook's division by 100.
calc_vega_per_percent(S, K, T, r, sigma, py) ==
    Bound(calc_d1(S, K, T, r, sigma, py),
          LAMBDA d1 : FDiv(FMul(FMul(S, FSqrt(T)), norm_pdf(d1)), Dec(100, 1)))

\* S * sqrt(T) * pdf(d1), the vega per unit of volatility.
calc_vega(S, K, T, r, sigma, py) ==
    Bound(calc_d1(S, K, T, r, sigma, py),
          LAMBDA d1 : FMul(FMul(S, FSqrt(T)), norm_pdf(d1)))

(***************************************************************************)
(* Greeks (second notebook).  Its calc_vega is scaled to a 1% move.        *)
(***************************************************************************)
calc_delta(S, K, T, r, sigma, opt_type) ==
    Bound(calc_d1(S, K, T, r, sigma, TRUE),
          LAMBDA d1 : IF opt_type = "c" THEN norm_cdf(d1)
                      ELSE FSub(norm_cdf(d1), Dec(1, 1)))

calc_gamma(S, K, T, r, sigma) ==
    Bound(calc_d1(S, K, T, r, sigma, TRUE),
          LAMBDA d1 : FDiv(norm_pdf(d1), FMul(FMul(S, sigma), FSqrt(T))))

greeks_calc_vega(S, K, T, r, sigma, py) ==
    Bound(calc_d1(S, K, T, r, sigma, py),
          LAMBDA d1 : Bound(FMul(FMul(S, FSqrt(T)), norm_pdf(d1)),
                            LAMBDA vega : FDiv(vega, Dec(100, 1))))

calc_theta(S, K, T, r, sigma, opt_type) ==
    Bound(calc_d1(S, K, T, r, sigma, TRUE),
          LAMBDA d1 :
              Bound(calc_d2(d1, sigma, T),
                    LAMBDA d2 :
                        LET decay == FDiv(FMul(FMul(FNeg(S), norm_pdf(d1)), sigma),
                                          FMul(Dec(2, 1), FSqrt(T)))
                            carry == FMul(FMul(FMul(r, K), FExp(FMul(FNeg(r), T))),
                                          IF opt_type = "c" THEN norm_cdf(d2)
                                          ELSE norm_cdf(FNeg(d2)))
                        IN  FDiv(IF opt_type = "c" THEN FSub(decay, carry)
                                 ELSE FAdd(decay, carry),
                                 Dec(365, 1))))

calc_rho(S, K, T, r, sigma, opt_type) ==
    Bound(calc_d1(S, K, T, r, sigma, TRUE),
          LAMBDA d1 :
              Bound(calc_d2(d1, sigma, T),
                    LAMBDA d2 :
                        FDiv(IF opt_type = "c"
                             THEN FMul(FMul(FMul(K, T), FExp(FMul(FNeg(r), T))),
                                       norm_cdf(d2))
                             ELSE FMul(FMul(FMul(FNeg(K), T), FExp(FMul(FNeg(r), T))),
                                       norm_cdf(FNeg(d2))),
                             Dec(100, 1))))

(***************************************************************************)
(* State.  Each invocation p of implied_volatility has its arguments, its  *)
(* locals and its position; `call` is one call of a pricing or Greek       *)
(* function made from a notebook cell.                                     *)
(***************************************************************************)
\* Number of invocations of implied_volatility in a batch.
NProcs == 2
Procs == 1 .. NProcs

VARIABLES
    active,     \* the invocations that were called
    args,       \* args[p]: the arguments of invocation p
    pc,         \* pc[p]: the statement invocation p executes next
    sigma,      \* locals of implied_volatility
    i,          \* items of range(max_iterations) consumed so far
    bs_price,
    v,
    sigma_new,
    result,     \* what invocation p gave its caller: a double or an exception
    via,        \* the exit it took: "converged" (line 286), "exhausted" (288), "raised"
    n_price,    \* calls of black_scholes made by invocation p
    n_vega,     \* calls of calc_vega made by invocation p
    tests,      \* outcomes of the convergence test, one per step
    overlap,    \* some invocation took a step while another was under way
    call        \* [fn, a, out]: a pricing call and its outcome

solver_vars == <<active, args, pc, sigma, i, bs_price, v, sigma_new, result, via,
                 n_price, n_vega, tests, overlap>>
vars == <<active, args, pc, sigma, i, bs_price, v, sigma_new, result, via,
          n_price, n_vega, tests, overlap, call>>

\* A local that is not bound yet.
Unbound == [k |-> "unbound", x |-> 0]

SolverArgs(mp, S, K, T, r, s0, ot, tol, mi) ==
    [market_price |-> mp, S |-> S, K |-> K, T |-> T, r |-> r, sigma_init |-> s0,
     opt_type |-> ot, tol |-> tol, max_iterations |-> mi]

\* The example cell of the solver notebook, with the default tol scaled to
\* the grid.
ExampleArgs == SolverArgs(Dec(5, 1), Dec(30, 1), Dec(28, 1), Dec(1, 2), Dec(25, 1000),
                          Dec(2, 10), "c", Dec(1, 100), 3)

\* Largest max_iterations of the solves explored.
MaxIter == 4

\* Arguments of a single solve: the example contract and market price, a
\* market price below the call's intrinsic value, degenerate contracts
\* (S = 0, K = 0, T <= 0), good, tiny, non-positive and huge initial
\* guesses, an unrecognised option type, zero tolerance and every iteration
\* cap up to MaxIter (and a negative one).
SolveInputs ==
    { SolverArgs(mp, S, K, T, Dec(25, 1000), s0, ot, tol, mi) :
        mp \in {Dec(5, 1), Dec(21, 10)},
        S \in {Dec(30, 1), Dec(0, 1)},
        K \in {Dec(28, 1), Dec(0, 1)},
        T \in {Dec(1, 2), Dec(0, 1), Dec(0 - 1, 1)},
        s0 \in {Dec(2, 10), Dec(5, 10), Dec(1, 100), Dec(0, 1), Dec(0 - 2, 10),
                Dec(50, 1)},
        ot \in {"c", "p", "x"},
        tol \in {Dec(1, 100), Dec(0, 1)},
        mi \in (0 - 1) .. MaxIter }

\* Arguments of the solves of a batch.
BatchInputs ==
    { SolverArgs(Dec(5, 1), Dec(30, 1), Dec(28, 1), Dec(1, 2), Dec(25, 1000), s0, "c",
                 Dec(1, 100), 2) :
        s0 \in {Dec(5, 10), Dec(2, 10), Dec(1, 100)} }

PricingArgs(S, K, T, r, sig, ot) ==
    [S |-> S, K |-> K, T |-> T, r |-> r, sigma |-> sig, opt_type |-> ot]

\* The example cell of the Greeks notebook.
ExampleCall == PricingArgs(Dec(100, 1), Dec(100, 1), Dec(1, 1), Dec(5, 100), Dec(2, 10), "c")

\* Arguments of a pricing or Greek call: the example contract and others,
\* with degenerate terms (K = 0, T <= 0, sigma <= 0), a term and a volatility
\* so short that sigma * sqrt(T) underflows, a volatility whose square
\* overflows and a rate so negative that exp(-r * T) overflows.
PricingInputs ==
    { PricingArgs(S, K, T, r, sig, ot) :
        S \in {Dec(100, 1), Dec(30, 1)},
        K \in {Dec(100, 1), Dec(0, 1)},
        T \in {Dec(1, 1), Dec(1, 1000), Dec(0, 1), Dec(0 - 1, 1)},
        r \in {Dec(5, 100), Dec(0 - 8, 1)},
        sig \in {Dec(2, 10), Dec(1, 1000), Dec(50, 1), Dec(0, 1), Dec(0 - 2, 10)},
        ot \in {"c", "p", "x"} }

NoCall == [fn |-> "none", a |-> ExampleCall, out |-> Unbound]

InitLocals ==
    /\ sigma = [p \in Procs |-> Unbound]
    /\ i = [p \in Procs |-> 0]
    /\ bs_price = [p \in Procs |-> Unbound]
    /\ v = [p \in Procs |-> Unbound]
    /\ sigma_new = [p \in Procs |-> Unbound]
    /\ result = [p \in Procs |-> Unbound]
    /\ via = [p \in Procs |-> "none"]
    /\ n_price = [p \in Procs |-> 0]
    /\ n_vega = [p \in Procs |-> 0]
    /\ tests = [p \in Procs |-> << >>]
    /\ overlap = FALSE

\* One call of implied_volatility.
Init ==
    /\ active = {1}
    /\ \E a \in SolveInputs : args = [p \in Procs |-> IF p = 1 THEN a ELSE ExampleArgs]
    /\ pc = [p \in Procs |-> IF p = 1 THEN "start" ELSE "idle"]
    /\ InitLocals
    /\ call = NoCall

\* A batch: every invocation called, each with its own arguments.
BatchInit ==
    /\ active = Procs
    /\ args \in [Procs -> BatchInputs]
    /\ pc = [p \in Procs |-> "start"]
    /\ InitLocals
    /\ call = NoCall

\* A notebook cell about to call one pricing or Greek function.
PricingInit ==
    /\ active = {}
    /\ args = [p \in Procs |-> ExampleArgs]
    /\ pc = [p \in Procs |-> "idle"]
    /\ InitLocals
    /\ \E a \in PricingInputs : call = [fn |-> "none", a |-> a, out |-> Unbound]

(***************************************************************************)
(* implied_volatility, one action per statement.                           *)
(***************************************************************************)
\* Bind on a module-level global instead of a local: every invocation sees it.
BindShared(f, p, val) == [q \in Procs |-> val]

\* Binding a local of invocation p.
Bind(f, p, val) == [f EXCEPT ![p] = val]

\* Another invocation than p is between its call and its return.
OthersUnderWay(p) == \E q \in active \ {p} : pc[q] \notin {"start", "done"}

\* The ghost overlap after a step of p.
Overlap(p) == overlap' = (overlap \/ OthersUnderWay(p))

\* HasNext with the bound included: one item too many.
HasNextInclusive(k, n) == k <= n

\* HasNext of a loop that tests after its body: the first step is always taken.
HasNextAfterBody(k, n) == k = 0 \/ k < n

\* range(n) has an item after k items were taken.
HasNext(k, n) == k < n

\* Line 280: sigma = sigma_init.
Start(p) ==
    /\ p \in active /\ pc[p] = "start"
    /\ sigma' = Bind(sigma, p, args[p].sigma_init)
    /\ pc' = [pc EXCEPT ![p] = "for"]
    /\ UNCHANGED <<active, args, i, bs_price, v, sigma_new, result, via,
                   n_price, n_vega, tests, call>>
    /\ Overlap(p)

\* Line 281: range(max_iterations) has another item.
ForNext(p) ==
    /\ p \in active /\ pc[p] = "for"
    /\ HasNext(i[p], args[p].max_iterations)
    /\ pc' = [pc EXCEPT ![p] = "price"]
    /\ UNCHANGED <<active, args, sigma, i, bs_price, v, sigma_new, result, via,
                   n_price, n_vega, tests, call>>
    /\ Overlap(p)

\* ReturnExhausted returning the initial guess.
ReturnExhaustedInit(p) ==
    /\ p \in active /\ pc[p] = "for"
    /\ ~(HasNext(i[p], args[p].max_iterations))
    /\ result' = [result EXCEPT ![p] = args[p].sigma_init]
    /\ via' = [via EXCEPT ![p] = "exhausted"]
    /\ pc' = [pc EXCEPT ![p] = "done"]
    /\ UNCHANGED <<active, args, sigma, i, bs_price, v, sigma_new,
                   n_price, n_vega, tests, call>>
    /\ Overlap(p)

\* Lines 281, 288: range(max_iterations) is used up; return sigma.
ReturnExhausted(p) ==
    /\ p \in active /\ pc[p] = "for"
    /\ ~(HasNext(i[p], args[p].max_iterations))
    /\ result' = [result EXCEPT ![p] = sigma[p]]
    /\ via' = [via EXCEPT ![p] = "exhausted"]
    /\ pc' = [pc EXCEPT ![p] = "done"]
    /\ UNCHANGED <<active, args, sigma, i, bs_price, v, sigma_new,
                   n_price, n_vega, tests, call>>
    /\ Overlap(p)

\* Line 282: bs_price = black_scholes(S, K, T, r, sigma, opt_type).
EvalPrice(p) ==
    /\ p \in active /\ pc[p] = "price"
    /\ \E res \in {black_scholes(args[p].S, args[p].K, args[p].T, args[p].r, sigma[p],
                                  args[p].opt_type, i[p] = 0)} :
           /\ n_price' = [n_price EXCEPT ![p] = @ + 1]
           /\ IF IsExc(res)
              THEN /\ result' = [result EXCEPT ![p] = res]
                   /\ via' = [via EXCEPT ![p] = "raised"]
                   /\ pc' = [pc EXCEPT ![p] = "done"]
                   /\ UNCHANGED bs_price
              ELSE /\ bs_price' = Bind(bs_price, p, res)
                   /\ pc' = [pc EXCEPT ![p] = "vega"]
                   /\ UNCHANGED <<result, via>>
    /\ UNCHANGED <<active, args, sigma, i, v, sigma_new, n_vega, tests, call>>
    /\ Overlap(p)

\* Line 283: v = calc_vega(S, K, T, r, sigma).
EvalVega(p) ==
    /\ p \in active /\ pc[p] = "vega"
    /\ \E res \in {calc_vega(args[p].S, args[p].K, args[p].T, args[p].r, sigma[p],
                              i[p] = 0)} :
           /\ n_vega' = [n_vega EXCEPT ![p] = @ + 1]
           /\ IF IsExc(res)
              THEN /\ result' = [result EXCEPT ![p] = res]
                   /\ via' = [via EXCEPT ![p] = "raised"]
                   /\ pc' = [pc EXCEPT ![p] = "done"]
                   /\ UNCHANGED v
              ELSE /\ v' = Bind(v, p, res)
                   /\ pc' = [pc EXCEPT ![p] = "update"]
                   /\ UNCHANGED <<result, via>>
    /\ UNCHANGED <<active, args, sigma, i, bs_price, sigma_new, n_price, tests, call>>
    /\ Overlap(p)

\* NewtonStep with the residual's sign reversed.
NewtonStepReversed(sig, price, market_price, vega) ==
    FSub(sig, FDiv(FSub(market_price, price), vega))

\* sigma - (bs_price - market_price) / v.
NewtonStep(sig, price, market_price, vega) ==
    FSub(sig, FDiv(FSub(price, market_price), vega))

\* Line 284: sigma_new = sigma - (bs_price - market_price) / v.
Update(p) ==
    /\ p \in active /\ pc[p] = "update"
    /\ sigma_new' = Bind(sigma_new, p,
                         NewtonStep(sigma[p], bs_price[p], args[p].market_price, v[p]))
    /\ pc' = [pc EXCEPT ![p] = "test"]
    /\ UNCHANGED <<active, args, sigma, i, bs_price, v, result, via,
                   n_price, n_vega, tests, call>>
    /\ Overlap(p)

\* Converged only when the estimate moved: 0 < abs(sigma_new - sigma) < tol.
ConvergedMoved(sig_new, sig, tol) ==
    FLt(Fin(0), FAbs(FSub(sig_new, sig))) /\ FLt(FAbs(FSub(sig_new, sig)), tol)

\* Converged with the bound included: abs(sigma_new - sigma) <= tol.
ConvergedInclusive(sig_new, sig, tol) == FLe(FAbs(FSub(sig_new, sig)), tol)

\* abs(sigma_new - sigma) < tol.
Converged(sig_new, sig, tol) == FLt(FAbs(FSub(sig_new, sig)), tol)

\* ReturnConverged returning the pre-step sigma.
ReturnConvergedStale(p) ==
    /\ p \in active /\ pc[p] = "test"
    /\ Converged(sigma_new[p], sigma[p], args[p].tol)
    /\ result' = [result EXCEPT ![p] = sigma[p]]
    /\ via' = [via EXCEPT ![p] = "converged"]
    /\ tests' = [tests EXCEPT ![p] = Append(@, TRUE)]
    /\ pc' = [pc EXCEPT ![p] = "done"]
    /\ UNCHANGED <<active, args, sigma, i, bs_price, v, sigma_new, n_price, n_vega, call>>
    /\ Overlap(p)

\* Lines 285-286: the test holds; return sigma_new.
ReturnConverged(p) ==
    /\ p \in active /\ pc[p] = "test"
    /\ Converged(sigma_new[p], sigma[p], args[p].tol)
    /\ result' = [result EXCEPT ![p] = sigma_new[p]]
    /\ via' = [via EXCEPT ![p] = "converged"]
    /\ tests' = [tests EXCEPT ![p] = Append(@, TRUE)]
    /\ pc' = [pc EXCEPT ![p] = "done"]
    /\ UNCHANGED <<active, args, sigma, i, bs_price, v, sigma_new, n_price, n_vega, call>>
    /\ Overlap(p)

\* Line 285: the test fails.
TestFails(p) ==
    /\ p \in active /\ pc[p] = "test"
    /\ ~Converged(sigma_new[p], sigma[p], args[p].tol)
    /\ tests' = [tests EXCEPT ![p] = Append(@, FALSE)]
    /\ pc' = [pc EXCEPT ![p] = "assign"]
    /\ UNCHANGED <<active, args, sigma, i, bs_price, v, sigma_new, result, via,
                   n_price, n_vega, call>>
    /\ Overlap(p)

\* Assign counting the steps down in max_iterations instead of up in i.
AssignCountingDown(p) ==
    /\ p \in active /\ pc[p] = "assign"
    /\ sigma' = Bind(sigma, p, sigma_new[p])
    /\ args' = [args EXCEPT ![p].max_iterations = @ - 1]
    /\ pc' = [pc EXCEPT ![p] = "for"]
    /\ UNCHANGED <<active, i, bs_price, v, sigma_new, result, via,
                   n_price, n_vega, tests, call>>
    /\ Overlap(p)

\* Line 287: sigma = sigma_new; the loop takes the next item.
Assign(p) ==
    /\ p \in active /\ pc[p] = "assign"
    /\ sigma' = Bind(sigma, p, sigma_new[p])
    /\ i' = [i EXCEPT ![p] = @ + 1]
    /\ pc' = [pc EXCEPT ![p] = "for"]
    /\ UNCHANGED <<active, args, bs_price, v, sigma_new, result, via,
                   n_price, n_vega, tests, call>>
    /\ Overlap(p)

Step(p) ==
    \/ Start(p)
    \/ ForNext(p)
    \/ ReturnExhausted(p)
    \/ EvalPrice(p)
    \/ EvalVega(p)
    \/ Update(p)
    \/ ReturnConverged(p)
    \/ TestFails(p)
    \/ Assign(p)

Next == \E p \in Procs : Step(p)

Spec == Init /\ [][Next]_vars

\* Python runs a called function to its end: no invocation stops midway.
FairSpec == Spec /\ \A p \in Procs : WF_vars(Step(p))

BatchSpec == BatchInit /\ [][Next]_vars

\* The market price that makes sig the implied volatility of a contract:
\* the price black_scholes gives at sig, or the example's 5 where it raises.
MarketPriceAt(S, K, T, r, sig, ot) ==
    ByValue1(LAMBDA price : IF IsExc(price) THEN Dec(5, 1) ELSE price,
             black_scholes(S, K, T, r, sig, ot, TRUE))

\* Arguments of a solve whose market price is the price black_scholes gives
\* at the initial guess: contracts at and off the money, guesses with a
\* vega and one whose vega is 0, an unrecognised option type, positive, zero
\* and negative tolerance, caps 0 .. 2.
FixedPointInputs ==
    { SolverArgs(MarketPriceAt(Dec(30, 1), K, T, Dec(25, 1000), s0, ot),
                 Dec(30, 1), K, T, Dec(25, 1000), s0, ot, tol, mi) :
        K \in {Dec(28, 1), Dec(30, 1)},
        T \in {Dec(1, 2), Dec(1, 1)},
        s0 \in {Dec(2, 10), Dec(5, 10), Dec(1, 100)},
        ot \in {"c", "p", "x"},
        tol \in {Dec(1, 100), Dec(0, 1), Dec(0 - 1, 100)},
        mi \in 0 .. 2 }

\* One call of implied_volatility on a market price that sigma_init prices.
FixedPointInit ==
    /\ active = {1}
    /\ \E a \in FixedPointInputs :
           args = [p \in Procs |-> IF p = 1 THEN a ELSE ExampleArgs]
    /\ pc = [p \in Procs |-> IF p = 1 THEN "start" ELSE "idle"]
    /\ InitLocals
    /\ call = NoCall

FixedPointSpec == FixedPointInit /\ [][Next]_vars

(***************************************************************************)
(* Calls of the pricing and Greek functions.                               *)
(***************************************************************************)
\* The cell after its call of fn gave out.
Called(fn, out) == [call EXCEPT !.fn = fn, !.out = out]

CallBlackScholes ==
    /\ call.fn = "none"
    /\ call' = Called("black_scholes",
                      black_scholes(call.a.S, call.a.K, call.a.T, call.a.r,
                                    call.a.sigma, call.a.opt_type, TRUE))
    /\ UNCHANGED solver_vars

CallDelta ==
    /\ call.fn = "none"
    /\ call' = Called("calc_delta",
                      calc_delta(call.a.S, call.a.K, call.a.T, call.a.r,
                                 call.a.sigma, call.a.opt_type))
    /\ UNCHANGED solver_vars

CallGamma ==
    /\ call.fn = "none"
    /\ call' = Called("calc_gamma",
                      calc_gamma(call.a.S, call.a.K, call.a.T, call.a.r, call.a.sigma))
    /\ UNCHANGED solver_vars

CallVega ==
    /\ call.fn = "none"
    /\ call' = Called("calc_vega",
                      greeks_calc_vega(call.a.S, call.a.K, call.a.T, call.a.r,
                                       call.a.sigma, TRUE))
    /\ UNCHANGED solver_vars

CallTheta ==
    /\ call.fn = "none"
    /\ call' = Called("calc_theta",
                      calc_theta(call.a.S, call.a.K, call.a.T, call.a.r,
                                 call.a.sigma, call.a.opt_type))
    /\ UNCHANGED solver_vars

CallRho ==
    /\ call.fn = "none"
    /\ call' = Called("calc_rho",
                      calc_rho(call.a.S, call.a.K, call.a.T, call.a.r,
                               call.a.sigma, call.a.opt_type))
    /\ UNCHANGED solver_vars

PricingNext ==
    \/ CallBlackScholes
    \/ CallDelta
    \/ CallGamma
    \/ CallVega
    \/ CallTheta
    \/ CallRho

PricingSpec == PricingInit /\ [][PricingNext]_vars

(***************************************************************************)
(* implied_volatility run alone, from its call to its return.              *)
(***************************************************************************)
RECURSIVE Iterate(_, _, _)
\* The loop of lines 281-288 from the k-th item of range(max_iterations) on,
\* with sigma = sig: the outcome given to the caller.
Iterate(a, sig, k) ==
    IF ~HasNext(k, a.max_iterations) THEN sig
    ELSE Bound(black_scholes(a.S, a.K, a.T, a.r, sig, a.opt_type, k = 0),
               LAMBDA price :
                   Bound(calc_vega(a.S, a.K, a.T, a.r, sig, k = 0),
                         LAMBDA vega :
                             Bound(NewtonStep(sig, price, a.market_price, vega),
                                   LAMBDA new :
                                       IF Converged(new, sig, a.tol) THEN new
                                       ELSE Iterate(a, new, k + 1))))

implied_volatility(a) == Iterate(a, a.sigma_init, 0)

(***************************************************************************)
(* Properties.                                                             *)
(***************************************************************************)
IsDouble(a) == a.k \in {"fin", "inf", "nan"}
Max0(n) == IF n < 0 THEN 0 ELSE n

\* Invocation p was called with a recognised option type and a cap >= 0.
InScope(p) ==
    /\ p \in active
    /\ args[p].opt_type \in {"c", "p"}
    /\ args[p].max_iterations >= 0

\* Invocation p returned a value (it did not raise).
Returned(p) == pc[p] = "done" /\ via[p] \in {"converged", "exhausted"}

\* At most max_iterations steps were begun by invocation p.
WithinCap(p) ==
    /\ n_price[p] <= Max0(args[p].max_iterations)
    /\ n_vega[p] <= Max0(args[p].max_iterations)
    /\ Len(tests[p]) <= Max0(args[p].max_iterations)
    /\ i[p] <= Max0(args[p].max_iterations)

\* a > 0 (false for nan and for an unbound local).
Positive(a) == IsDouble(a) /\ FLt(Fin(0), a)

\* a <= 0 (false for nan and for an unbound local).
NonPositive(a) == IsDouble(a) /\ FLe(a, Fin(0))

\* Invocation p got positive S, T and sigma_init.
PositiveTerms(p) ==
    Positive(args[p].S) /\ Positive(args[p].T) /\ Positive(args[p].sigma_init)

\* Invocation p was called on a contract of the data model (S, K, T > 0, a
\* recognised option type) with a positive guess and tolerance and a cap >= 1.
Valid(p) ==
    /\ InScope(p) /\ PositiveTerms(p)
    /\ Positive(args[p].K) /\ Positive(args[p].tol)
    /\ args[p].max_iterations >= 1

\* C1 as stated: for every input with opt_type in {c, p} and max_iterations
\* >= 0, implied_volatility executes at most max_iterations Newton steps and
\* then returns (it ends by returning a value); stated here for the inputs
\* with positive S, T and sigma_init only.
C1_AlwaysReturns ==
    \A p \in Procs :
        (InScope(p) /\ PositiveTerms(p)) =>
            WithinCap(p) /\ (pc[p] = "done" => Returned(p))

\* The only exceptions of an in-scope invocation: ZeroDivisionError from S / K
\* with K = 0 and OverflowError from sigma_init**2, both in the first step.
RaisesOnlyArithmetic(p) ==
    (pc[p] = "done" /\ via[p] = "raised") =>
        /\ n_price[p] = 1 /\ i[p] = 0
        /\ result[p].k \in {"ZeroDivisionError", "OverflowError"}
        /\ (result[p].k = "ZeroDivisionError" => args[p].K.x = 0)
        /\ (result[p].k = "OverflowError" =>
                IsInf(FMul(args[p].sigma_init, args[p].sigma_init)))

\* C1 (amended): for every input with opt_type in {c, p} and max_iterations
\* >= 0, implied_volatility terminates: it executes at most max_iterations
\* Newton steps and then returns, whether or not the convergence test was
\* ever satisfied, or it raises ZeroDivisionError (K = 0) or OverflowError
\* (sigma_init**2 out of range) in its first step.
C1_Terminates ==
    /\ \A p \in Procs : InScope(p) ~> (pc[p] = "done")
    /\ [](\A p \in Procs : InScope(p) =>
            /\ WithinCap(p)
            /\ (pc[p] = "done" => Returned(p) \/ via[p] = "raised")
            /\ RaisesOnlyArithmetic(p))

\* An in-scope invocation returned after 3 or more steps none of which met
\* the convergence test.
C1_Witness ==
    \E p \in Procs :
        /\ InScope(p) /\ pc[p] = "done" /\ via[p] = "exhausted"
        /\ args[p].max_iterations >= 3
        /\ n_price[p] = args[p].max_iterations
        /\ \A k \in 1 .. Len(tests[p]) : ~tests[p][k]

\* C2: when implied_volatility uses up its max_iterations steps without the
\* convergence test ever succeeding, what it gives the caller is not a plain
\* double as a converged solve gives, but a distinguishable outcome (stated
\* for valid inputs).
C2_ExhaustionDistinguishable ==
    \A p \in Procs :
        (/\ Valid(p) /\ pc[p] = "done" /\ via[p] = "exhausted"
         /\ i[p] = args[p].max_iterations)
        => ~IsDouble(result[p])

\* The threshold of a degenerate vega: the smallest positive double of the
\* grid, so |v| < VegaEpsilon is v = 0 (1e-12 in the spec's doubles).
VegaEpsilon == Fin(1)
NearZero(a) == FLt(FAbs(a), VegaEpsilon)
NanOrInf(a) == IsNaN(a) \/ IsInf(a)

\* C3: in a step whose vega v has |v| < epsilon the solver aborts with a
\* SolverDegenerate error: it never gets to the division by such a v, and it
\* never carries or returns a NaN or infinite sigma (stated for valid
\* inputs).
C3_DegenerateVegaAborts ==
    \A p \in Procs :
        Valid(p) =>
            /\ (pc[p] = "update" => ~NearZero(v[p]))
            /\ ~NanOrInf(sigma[p])
            /\ ~NanOrInf(sigma_new[p])
            /\ ~NanOrInf(result[p])

\* C4: in a run started with sigma_init > 0 the estimate stays positive: a
\* sigma_new <= 0 is never stored as the current sigma nor fed to the next
\* evaluation, and it is never returned (stated for valid inputs).
C4_SigmaStaysPositive ==
    \A p \in Procs :
        Valid(p) =>
            /\ ~NonPositive(sigma[p])
            /\ (Returned(p) => ~NonPositive(result[p]))

\* C5: at the first step whose test |sigma_new - sigma| < tol holds the
\* solver returns that step's sigma_new (the Newton update of the pre-step
\* sigma, not the pre-step sigma itself) having made one price and one vega
\* evaluation per step and none after; the test failed at every earlier step.
C5_ConvergedReturnsNew ==
    \A p \in Procs :
        via[p] = "converged" =>
            /\ pc[p] = "done"
            /\ result[p] = sigma_new[p]
            /\ sigma_new[p] = NewtonStep(sigma[p], bs_price[p], args[p].market_price, v[p])
            /\ Converged(sigma_new[p], sigma[p], args[p].tol)
            /\ n_price[p] = i[p] + 1 /\ n_vega[p] = i[p] + 1
            /\ Len(tests[p]) = i[p] + 1
            /\ \A k \in 1 .. Len(tests[p]) : tests[p][k] = (k = i[p] + 1)

\* A solve that converged in its second or a later step, on a sigma_new that
\* differs from the pre-step sigma.
C5_Witness ==
    \E p \in Procs :
        /\ via[p] = "converged" /\ i[p] >= 1
        /\ result[p] # sigma[p]
        /\ IsFin(result[p])

\* black_scholes at the value invocation p returned (a Python number when it
\* is sigma_init itself, a numpy.float64 otherwise).
PriceAtResult(p) ==
    black_scholes(args[p].S, args[p].K, args[p].T, args[p].r, result[p],
                  args[p].opt_type, i[p] = 0)

\* |a - b| <= tol.
Within(a, b, tol) == IsDouble(a) /\ FLe(FAbs(FSub(a, b)), tol)

\* C6: whenever implied_volatility stops iterating and returns sigma, the
\* price is reproduced within tolerance: |black_scholes(..., sigma) -
\* market_price| <= tol (stated for valid inputs).
C6_ReturnedReproducesPrice ==
    \A p \in Procs :
        (Valid(p) /\ Returned(p)) =>
            Within(PriceAtResult(p), args[p].market_price, args[p].tol)

\* The functions that take an option type.
TypedFunctions == {"black_scholes", "calc_delta", "calc_theta", "calc_rho"}

\* C7: every pricing and sensitivity function that takes an option type
\* reports an invalid-argument error when opt_type is neither 'c' nor 'p',
\* and gives neither the call's nor the put's number (stated for calls with
\* positive S, K, T and sigma, where no other error is raised).
C7_UnknownTypeRejected ==
    (/\ call.fn \in TypedFunctions /\ call.a.opt_type \notin {"c", "p"}
     /\ Positive(call.a.S) /\ Positive(call.a.K)
     /\ Positive(call.a.T) /\ Positive(call.a.sigma))
        => call.out.k = "AssertionError"

\* C8: black_scholes and every Greek function fail with a domain error, and
\* give no number, whenever sigma <= 0 or T <= 0 (stated for calls with
\* K # 0 and a recognised option type, where no other error is raised).
C8_DomainErrorRaised ==
    (/\ call.fn # "none"
     /\ call.a.K.x # 0 /\ call.a.opt_type \in {"c", "p"}
     /\ (NonPositive(call.a.sigma) \/ NonPositive(call.a.T)))
        => IsExc(call.out)

\* S * sqrt(T) * pdf(d1) at invocation p's current sigma.
UnscaledVega(p) ==
    FMul(FMul(args[p].S, FSqrt(args[p].T)),
         norm_pdf(calc_d1(args[p].S, args[p].K, args[p].T, args[p].r, sigma[p], i[p] = 0)))

\* C9: in every Newton step the divisor v is the unscaled vega
\* S * sqrt(T) * pdf(d1) at the current sigma, of which the Greeks
\* notebook's calc_vega gives the hundredth; the update divides by it.
C9_UnscaledVegaInUpdate ==
    \A p \in Procs :
        /\ pc[p] \in {"update", "test", "assign"} =>
            /\ v[p] = UnscaledVega(p)
            /\ greeks_calc_vega(args[p].S, args[p].K, args[p].T, args[p].r, sigma[p],
                                i[p] = 0) = FDiv(v[p], Dec(100, 1))
        /\ pc[p] \in {"test", "assign"} =>
            sigma_new[p] = FSub(sigma[p],
                                FDiv(FSub(bs_price[p], args[p].market_price),
                                     UnscaledVega(p)))

\* A Newton step of a valid solve is about to divide by a finite non-zero
\* vega whose hundredth is another number.
C9_Witness ==
    \E p \in Procs :
        /\ Valid(p) /\ pc[p] = "update" /\ i[p] >= 1
        /\ IsFin(v[p]) /\ v[p].x > 100
        /\ FDiv(v[p], Dec(100, 1)) # v[p]

\* The locals and the outcome of invocation q.
Locals(q) ==
    <<args[q], sigma[q], i[q], bs_price[q], v[q], sigma_new[q], result[q], via[q],
      n_price[q], n_vega[q], tests[q]>>

\* C10: solves are independent and reentrant: however the statements of the
\* invocations of a batch interleave, each invocation gives its caller what
\* it gives when run alone, and a step of one invocation leaves the locals
\* of every other invocation as they were.
C10_Independent ==
    /\ [](\A p \in Procs : pc[p] = "done" => result[p] = implied_volatility(args[p]))
    /\ [][\A q \in Procs : pc'[q] = pc[q] => Locals(q)' = Locals(q)]_vars

\* Every solve of a batch returned, after steps of one were taken while
\* another was under way; two of them had different arguments and results,
\* and one converged.
C10_Witness ==
    /\ overlap
    /\ \A p \in Procs : pc[p] = "done"
    /\ \E p, q \in Procs : args[p] # args[q] /\ result[p] # result[q]
    /\ \E p \in Procs : via[p] = "converged"

\* The other option type.
OtherType(opt_type) == IF opt_type = "c" THEN "p" ELSE "c"

\* The cell called black_scholes on a valid contract (S, K, T > 0) with
\* sigma > 0 and a recognised option type.
PricedValidContract ==
    /\ call.fn = "black_scholes" /\ call.a.opt_type \in {"c", "p"}
    /\ Positive(call.a.S) /\ Positive(call.a.K)
    /\ Positive(call.a.T) /\ Positive(call.a.sigma)

\* black_scholes of the other option type on the arguments of the call made.
OtherPrice ==
    black_scholes(call.a.S, call.a.K, call.a.T, call.a.r, call.a.sigma,
                  OtherType(call.a.opt_type), TRUE)

\* Call price minus put price, one of them the outcome of the call made.
CallMinusPut ==
    IF call.a.opt_type = "c" THEN FSub(call.out, OtherPrice)
    ELSE FSub(OtherPrice, call.out)

\* S - K * exp(-r * T).
Forward == FSub(call.a.S, Discounted(call.a.K, call.a.r, call.a.T))

\* The floating-point tolerance of parity on the grid: the rounding of the
\* four products S * cdf(+-d1), K * exp(-r * T) * cdf(+-d2), half a grid unit
\* each (the spec's 1e-8 stands to the doubles' 1e-16 as this to the grid).
ParityTol == Fin(2)

\* Both prices are numbers and parity holds within the tolerance.
ParityHolds ==
    /\ ~IsExc(call.out) /\ ~IsExc(OtherPrice)
    /\ Within(CallMinusPut, Forward, ParityTol)

\* C11 as stated: for every valid contract (S, K, T > 0, any r) and
\* sigma > 0, call price minus put price equals S - K * exp(-r * T) within
\* the floating-point tolerance.
C11_PutCallParity == PricedValidContract => ParityHolds

\* sigma**2 and K * exp(-r * T) are in the range of the doubles and d1 is
\* not 0 / 0.
InRange ==
    /\ ~IsExc(Square(call.a.sigma, TRUE))
    /\ IsFin(Discounted(call.a.K, call.a.r, call.a.T))
    /\ ~IsNaN(calc_d1(call.a.S, call.a.K, call.a.T, call.a.r, call.a.sigma, TRUE))

\* cdf(x) + cdf(-x) = 1 at x = d.
CdfSymmetricAt(d) == FAdd(norm_cdf(d), norm_cdf(FNeg(d))) = Dec(1, 1)

\* The normal CDF satisfies cdf(x) + cdf(-x) = 1 at the d1 and the d2 of the
\* call made (1 / 2 = cdf(0) is a double; it is on the grid when Scale is
\* even).
CdfSymmetric ==
    Bound(calc_d1(call.a.S, call.a.K, call.a.T, call.a.r, call.a.sigma, TRUE),
          LAMBDA d1 : /\ CdfSymmetricAt(d1)
                      /\ CdfSymmetricAt(calc_d2(d1, call.a.sigma, call.a.T))) = TRUE

\* C11 (amended): for every valid contract and sigma > 0 for which
\* sigma**2 and K * exp(-r * T) do not overflow and d1 is not 0 / 0, both
\* prices are finite and call price minus put price equals
\* S - K * exp(-r * T) within the floating-point tolerance, given that
\* cdf(x) + cdf(-x) = 1.
C11_ParityInRange ==
    (PricedValidContract /\ InRange /\ CdfSymmetric)
        => (IsFin(call.out) /\ ParityHolds)

\* black_scholes gave a positive finite price of a valid contract in range,
\* at a d1 where neither cdf is 0 or 1, and the other type's price differs.
C11_Witness ==
    /\ PricedValidContract /\ InRange /\ CdfSymmetric
    /\ IsFin(call.out) /\ call.out.x > 0
    /\ IsFin(OtherPrice) /\ OtherPrice.x > 0 /\ OtherPrice # call.out

\* black_scholes and calc_vega of invocation p's arguments at its current
\* sigma.
PriceAtSigma(p) ==
    black_scholes(args[p].S, args[p].K, args[p].T, args[p].r, sigma[p],
                  args[p].opt_type, i[p] = 0)
VegaAtSigma(p) ==
    calc_vega(args[p].S, args[p].K, args[p].T, args[p].r, sigma[p], i[p] = 0)

\* Invocation p ends a non-terminal step: one evaluation of the price and
\* one of the vega were made in it, both at the pre-step sigma, sigma becomes
\* sigma - (bs_price - market_price) / v and the count goes up by 1.
EndsStep(p) ==
    /\ n_price[p] = i[p] + 1 /\ n_vega[p] = i[p] + 1
    /\ n_price'[p] = n_price[p] /\ n_vega'[p] = n_vega[p]
    /\ bs_price[p] = PriceAtSigma(p)
    /\ v[p] = VegaAtSigma(p)
    /\ sigma'[p] = FSub(sigma[p],
                        FDiv(FSub(bs_price[p], args[p].market_price), v[p]))
    /\ i'[p] = i[p] + 1

\* C12: every non-terminal step of implied_volatility evaluates
\* black_scholes and calc_vega exactly once each, both at the pre-step sigma,
\* then replaces sigma by sigma - (bs_price - market_price) / v and advances
\* the iteration count by 1; sigma and the count change in no other way
\* (sigma is bound to sigma_init on entry).
C12_StepStructure ==
    [][\A p \in Procs :
          /\ (pc[p] = "assign" /\ pc'[p] # "assign") => EndsStep(p)
          /\ (sigma'[p] # sigma[p]) =>
                 \/ pc[p] = "assign" /\ pc'[p] # "assign"
                 \/ pc[p] = "start" /\ sigma'[p] = args[p].sigma_init
          /\ (i'[p] # i[p]) => (pc[p] = "assign" /\ pc'[p] # "assign")
          /\ (n_price'[p] # n_price[p]) =>
                 (pc[p] = "price" /\ n_price[p] = i[p] /\ n_price'[p] = i[p] + 1)
          /\ (n_vega'[p] # n_vega[p]) =>
                 (pc[p] = "vega" /\ n_vega[p] = i[p] /\ n_vega'[p] = i[p] + 1)]_vars

\* A valid solve ended two or more non-terminal steps, each of which moved
\* sigma.
C12_Witness ==
    \E p \in Procs :
        /\ Valid(p) /\ pc[p] = "for" /\ i[p] >= 2
        /\ IsFin(sigma[p]) /\ sigma[p] # args[p].sigma_init
        /\ sigma[p] = sigma_new[p]
        /\ Len(tests[p]) = i[p]

RECURSIVE Updates(_, _)
\* k Newton updates applied to sigma_init, with no convergence test: the
\* update of lines 282-284 at Updates(a, k - 1).
Updates(a, k) ==
    IF k <= 0 THEN a.sigma_init
    ELSE Bound(ByValue2(Updates, a, k - 1),
               LAMBDA sig :
                   Bound(black_scholes(a.S, a.K, a.T, a.r, sig, a.opt_type, k = 1),
                         LAMBDA price :
                             Bound(calc_vega(a.S, a.K, a.T, a.r, sig, k = 1),
                                   LAMBDA vega :
                                       FSub(sig, FDiv(FSub(price, a.market_price),
                                                      vega)))))

\* The convergence test of invocation p failed in all its max_iterations
\* steps (max_iterations >= 1) and it returned.
ExhaustedAfterSteps(p) ==
    /\ p \in active /\ pc[p] = "done" /\ via[p] = "exhausted"
    /\ args[p].max_iterations >= 1
    /\ Len(tests[p]) = args[p].max_iterations
    /\ \A k \in 1 .. Len(tests[p]) : ~tests[p][k]

\* C13: when the convergence test fails in all max_iterations steps
\* (max_iterations >= 1) implied_volatility returns the sigma_new of the last
\* step, which is max_iterations Newton updates applied to sigma_init.
C13_ExhaustedReturnsLast ==
    \A p \in Procs :
        ExhaustedAfterSteps(p) =>
            /\ result[p] = sigma_new[p]
            /\ result[p] = Updates(args[p], args[p].max_iterations)
            /\ n_price[p] = args[p].max_iterations
            /\ n_vega[p] = args[p].max_iterations

\* A valid solve used up three or more steps and returned a finite value that
\* is neither sigma_init nor the iterate before the last.
C13_Witness ==
    \E p \in Procs :
        /\ Valid(p) /\ ExhaustedAfterSteps(p)
        /\ args[p].max_iterations >= 3
        /\ IsFin(result[p])
        /\ result[p] # args[p].sigma_init
        /\ result[p] # Updates(args[p], args[p].max_iterations - 1)

\* The parameters of invocation p other than the initial guess.
Contract(p) ==
    <<args[p].market_price, args[p].S, args[p].K, args[p].T, args[p].r,
      args[p].opt_type, args[p].tol, args[p].max_iterations>>

\* C14: during a run of implied_volatility market_price, S, K, T, r,
\* opt_type, tol and max_iterations keep their values, every price and vega
\* evaluation is made on them, and between two steps the run carries nothing
\* but the current sigma and the iteration count: what it will give its
\* caller is a function of these and of the parameters.
C14_OnlySigmaAndCountChange ==
    /\ [][\A p \in Procs :
            /\ Contract(p)' = Contract(p)
            /\ (bs_price'[p] # bs_price[p]) => bs_price'[p] = PriceAtSigma(p)
            /\ (v'[p] # v[p]) => v'[p] = VegaAtSigma(p)]_vars
    /\ [](\A p \in Procs :
            /\ pc[p] = "for" =>
                   Iterate(args[p], sigma[p], i[p]) = implied_volatility(args[p])
            /\ pc[p] = "done" => result[p] = Iterate(args[p], args[p].sigma_init, 0))

\* A valid solve is at the end of its second or a later step, with a price,
\* a vega and an update that were evaluated at a sigma other than sigma_init.
C14_Witness ==
    \E p \in Procs :
        /\ Valid(p) /\ pc[p] = "assign" /\ i[p] >= 1
        /\ sigma[p] # args[p].sigma_init
        /\ IsFin(bs_price[p]) /\ IsFin(v[p]) /\ IsFin(sigma_new[p])
        /\ bs_price[p] = PriceAtSigma(p) /\ v[p] = VegaAtSigma(p)

\* black_scholes and calc_vega of invocation p's arguments at sigma_init.
PriceAtInit(p) ==
    black_scholes(args[p].S, args[p].K, args[p].T, args[p].r, args[p].sigma_init,
                  args[p].opt_type, TRUE)
VegaAtInit(p) ==
    calc_vega(args[p].S, args[p].K, args[p].T, args[p].r, args[p].sigma_init, TRUE)

\* sigma_init prices the market price of invocation p exactly, with a
\* non-zero vega, and p was called with tol > 0 and max_iterations >= 1.
AtFixedPoint(p) ==
    /\ p \in active
    /\ PriceAtInit(p) = args[p].market_price
    /\ IsDouble(VegaAtInit(p)) /\ VegaAtInit(p) # Fin(0)
    /\ Positive(args[p].tol)
    /\ args[p].max_iterations >= 1

\* C15: if black_scholes at sigma_init equals market_price exactly, the vega
\* at sigma_init is non-zero, tol > 0 and max_iterations >= 1, then
\* implied_volatility returns sigma_init itself after exactly one step: it
\* never begins a second step and its only exit is the convergence return of
\* the first (stated for finite arguments).
C15_FixedPoint ==
    \A p \in Procs :
        AtFixedPoint(p) =>
            /\ i[p] = 0 /\ n_price[p] <= 1 /\ n_vega[p] <= 1
            /\ pc[p] \notin {"assign"}
            /\ (pc[p] = "test" => sigma_new[p] = args[p].sigma_init)
            /\ (pc[p] = "done" =>
                    /\ via[p] = "converged"
                    /\ result[p] = args[p].sigma_init
                    /\ n_price[p] = 1 /\ n_vega[p] = 1
                    /\ tests[p] = <<TRUE>>)

\* A solve at a fixed point returned, on a contract off the money with a
\* cap of 2 or more.
C15_Witness ==
    \E p \in Procs :
        /\ AtFixedPoint(p) /\ pc[p] = "done"
        /\ args[p].max_iterations >= 2
        /\ args[p].S # args[p].K
        /\ IsFin(args[p].market_price) /\ args[p].market_price.x > 0

\* C16: with max_iterations <= 0 implied_volatility returns sigma_init
\* unchanged without evaluating black_scholes or calc_vega at all: no step is
\* begun, nothing is raised whatever opt_type, sigma_init and T are, and the
\* result is a plain number, as a converged result is.
C16_NoStepsReturnsInit ==
    \A p \in active :
        args[p].max_iterations <= 0 =>
            /\ n_price[p] = 0 /\ n_vega[p] = 0 /\ tests[p] = << >> /\ i[p] = 0
            /\ pc[p] \in {"start", "for", "done"}
            /\ (pc[p] = "done" =>
                    /\ via[p] = "exhausted"
                    /\ result[p] = args[p].sigma_init
                    /\ IsDouble(result[p]))

\* A call with a negative cap, an unrecognised option type and non-positive
\* sigma_init and T returned.
C16_Witness ==
    \E p \in active :
        /\ args[p].max_iterations < 0 /\ pc[p] = "done"
        /\ args[p].opt_type \notin {"c", "p"}
        /\ NonPositive(args[p].sigma_init) /\ NonPositive(args[p].T)

\* Invocation p was called with tol <= 0.
NoTolerance(p) == p \in active /\ NonPositive(args[p].tol)

\* C17 as stated: with tol <= 0 the convergence test never succeeds and, for
\* every input, implied_volatility executes exactly max_iterations steps and
\* returns through the exhaustion path (stated for max_iterations >= 0).
C17_AlwaysExhausts ==
    \A p \in Procs :
        (NoTolerance(p) /\ args[p].max_iterations >= 0 /\ pc[p] = "done") =>
            /\ via[p] = "exhausted"
            /\ n_price[p] = args[p].max_iterations
            /\ Len(tests[p]) = args[p].max_iterations

\* C17 (amended): with tol <= 0 the convergence test never succeeds, even
\* when sigma_new equals sigma, so implied_volatility never takes the early
\* return: unless its first step raises (AssertionError, ZeroDivisionError
\* or OverflowError) it executes exactly max(max_iterations, 0) steps and
\* returns through the exhaustion path.
C17_NeverConvergesEarly ==
    \A p \in Procs :
        NoTolerance(p) =>
            /\ via[p] # "converged"
            /\ \A k \in 1 .. Len(tests[p]) : ~tests[p][k]
            /\ (pc[p] = "test" => ~Converged(sigma_new[p], sigma[p], args[p].tol))
            /\ (pc[p] = "done" =>
                    \/ /\ via[p] = "exhausted"
                       /\ n_price[p] = Max0(args[p].max_iterations)
                       /\ n_vega[p] = Max0(args[p].max_iterations)
                       /\ Len(tests[p]) = Max0(args[p].max_iterations)
                    \/ /\ via[p] = "raised" /\ n_price[p] = 1 /\ i[p] = 0
                       /\ result[p].k \in {"AssertionError", "ZeroDivisionError",
                                            "OverflowError"})

\* A solve with tol <= 0 ran two steps in each of which the finite sigma_new
\* was equal to sigma, and returned through the exhaustion path.
C17_Witness ==
    \E p \in Procs :
        /\ NoTolerance(p) /\ pc[p] = "done" /\ via[p] = "exhausted"
        /\ args[p].max_iterations = 2 /\ tests[p] = <<FALSE, FALSE>>
        /\ IsFin(result[p])
        /\ Updates(args[p], 1) = args[p].sigma_init
        /\ Updates(args[p], 2) = args[p].sigma_init

====
